---- MODULE Spec2Model ----
(***************************************************************************)
(* A model of pyani's report subcommand, subcmd_report(args, logger), of   *)
(* src/pyani/scripts/subcommands/subcmd_report.py, together with the two   *)
(* collaborators it drives: the matrix builder (pyani_db.ANIResults) and   *)
(* the table exporter (pyani_report.write_dbtable).                        *)
(*                                                                         *)
(* Strings are sequences of one-character strings, so that split(",") and  *)
(* strip() are computed on characters.  The literal path components of the *)
(* code ("runs", "matrix", "identity", ...) are kept as single elements of *)
(* a path stem.  Reals in [0,1] are kept in hundredths (0.97 is 97), their *)
(* products in ten-thousandths (0.8536 is 8536).                           *)
(***************************************************************************)
EXTENDS Integers, Sequences, FiniteSets, Bags, TLC

VARIABLES
    argv,        \* the arguments the invocation was given (never assigned)
    args,        \* the local name `args` of subcmd_report
    db,          \* the data source: run id -> its comparison records
    pc,          \* position in subcmd_report
    err,         \* the exception that ended the invocation and where it was raised
    session,     \* whether get_session has returned a session
    formats,     \* the local list `formats`, as a bag (its order is unspecified)
    outfstem,    \* the local `outfstem`
    run_ids,     \* the local list `run_ids`
    idx,         \* index of the current element of `for run_id in run_ids`
    mi,          \* index of the current element of the inner matrix loop
    records,     \* the comparison records the last matrix build fetched
    results,     \* the local `results`: the five matrices of the current run
    built,       \* the iterations of the matrix loop whose build succeeded
    calls,       \* every write_dbtable call made, in order
    files,       \* the files on disk: <<path stem, format>>
    overwritten, \* the files that an export found already written
    reported     \* the per-format export failures reported

vars == <<argv, args, db, pc, err, session, formats, outfstem, run_ids, idx, mi,
          records, results, built, calls, files, overwritten, reported>>

-----------------------------------------------------------------------------
(* Bounds of the model *)

\* longest args.formats string enumerated character by character
MaxFmtLen == 5
\* most run ids in args.run_results / args.run_matrices
MaxRuns == 2
\* most comparison records of a run when every record list is enumerated
MaxRecords == 2

-----------------------------------------------------------------------------
(* Strings *)

None == <<"None">>
Tab == <<"t", "a", "b">>
Excel == <<"e", "x", "c", "e", "l">>
Html == <<"h", "t", "m", "l">>
Comma == ","
Space == " "

\* a Python value used as a condition: None and "" are false
Truthy(s) == s # None /\ s # <<>>

RECURSIVE SplitFrom(_, _, _)
\* the tokens of s from position i on, `cur` being the token read so far
SplitFrom(s, i, cur) ==
    IF i > Len(s) THEN <<cur>>
    ELSE IF s[i] = Comma THEN <<cur>> \o SplitFrom(s, i + 1, <<>>)
    ELSE SplitFrom(s, i + 1, Append(cur, s[i]))

\* str.split(","): n commas give n + 1 tokens, empty ones included
Split(s) == SplitFrom(s, 1, <<>>)

RECURSIVE LStrip(_)
LStrip(s) == IF s # <<>> /\ Head(s) = Space THEN LStrip(Tail(s)) ELSE s

RECURSIVE RStrip(_)
RStrip(s) ==
    IF s # <<>> /\ s[Len(s)] = Space THEN RStrip(SubSeq(s, 1, Len(s) - 1)) ELSE s

\* str.strip()
Strip(s) == RStrip(LStrip(s))

\* [x.strip() for x in s.split(",")]
StripAll(toks) == [k \in 1..Len(toks) |-> Strip(toks[k])]

SeqToSet(s) == {s[k] : k \in 1..Len(s)}

\* "_".join(parts), every part a string
RECURSIVE JoinUnderscore(_)
JoinUnderscore(parts) ==
    IF Len(parts) = 0 THEN <<>>
    ELSE IF Len(parts) = 1 THEN parts[1]
    ELSE parts[1] \o <<"_">> \o JoinUnderscore(Tail(parts))

\* os.path.join(dir, name)
PathJoin(dir, name) == dir \o <<"/">> \o <<name>>

-----------------------------------------------------------------------------
(* The format list, lines 71-74 *)

\* the format list with the empty tokens left out
FormatListSkipEmpty(f) ==
    IF Truthy(f) THEN <<Tab>> \o SelectSeq(StripAll(Split(f)), LAMBDA t : t # <<>>)
    ELSE <<Tab>>

\* formats = ["tab"]; if args.formats: formats += [stripped tokens]
FormatList(f) == IF Truthy(f) THEN <<Tab>> \o StripAll(Split(f)) ELSE <<Tab>>

\* the list kept as it is, repeats included
KeepRepeats(l) == [x \in SeqToSet(l) |-> Cardinality({k \in 1..Len(l) : l[k] = x})]

\* list(set(formats)): each element once, in an unspecified order
DedupFormats(l) == SetToBag(SeqToSet(l))

-----------------------------------------------------------------------------
(* The matrix builder, BuildMatrices(runID): a comparison record is         *)
(* [query, subject, identity, coverage, aln_length, sim_errors]             *)

\* the "missing" cell, distinct from every value a record can hold
Missing == -1

\* the declared metrics: the matrix name, the record field, mirrored or not
Metrics ==
    << [name |-> "identity",    field |-> "identity",   symmetric |-> TRUE],
       [name |-> "coverage",    field |-> "coverage",   symmetric |-> FALSE],
       [name |-> "aln_lengths", field |-> "aln_length", symmetric |-> TRUE],
       [name |-> "sim_errors",  field |-> "sim_errors", symmetric |-> TRUE] >>

\* the distinct genome identifiers of a run's records
GenomeIds(recs) ==
    UNION {{recs[k].query, recs[k].subject} : k \in 1..Len(recs)}

RECURSIVE SortedSeq(_)
\* the elements of a set of integers, ascending
SortedSeq(S) ==
    IF S = {} THEN <<>>
    ELSE LET m == CHOOSE x \in S : \A y \in S : x <= y
         IN  <<m>> \o SortedSeq(S \ {m})

\* step 2: the row and column order of every matrix of the run
GenomeIndex(recs) == SortedSeq(GenomeIds(recs))

\* the row (column) of a genome identifier
Pos(index, g) == CHOOSE i \in 1..Len(index) : index[i] = g

\* step 3: an N x N matrix of missing cells
BlankMatrix(n) == [i \in 1..n |-> [j \in 1..n |-> Missing]]

\* one record written to its forward cell only
WriteForwardOnly(m, index, r, value, symmetric) ==
    [m EXCEPT ![Pos(index, r.query)][Pos(index, r.subject)] = value]

\* step 4, one record: the forward cell, and the reverse cell when mirrored
WriteRecord(m, index, r, value, symmetric) ==
    LET q == Pos(index, r.query)
        s == Pos(index, r.subject)
        fwd == [m EXCEPT ![q][s] = value]
    IN  IF symmetric THEN [fwd EXCEPT ![s][q] = value] ELSE fwd

RECURSIVE FillMatrix(_, _, _, _, _)
\* step 4: the records written in order from record k on
FillMatrix(m, index, recs, k, metric) ==
    IF k > Len(recs) THEN m
    ELSE FillMatrix(
             WriteRecord(m, index, recs[k], recs[k][metric.field], metric.symmetric),
             index, recs, k + 1, metric)

\* steps 3 and 4 for one metric
MetricMatrix(recs, metric) ==
    FillMatrix(BlankMatrix(Len(GenomeIndex(recs))), GenomeIndex(recs), recs, 1, metric)

\* the elementwise product with a missing operand read as zero
HadamardZeroFill(ident, cov) ==
    [i \in DOMAIN ident |-> [j \in DOMAIN ident[i] |->
        (IF ident[i][j] = Missing THEN 0 ELSE ident[i][j])
        * (IF cov[i][j] = Missing THEN 0 ELSE cov[i][j])]]

\* step 5: the elementwise product, a missing operand giving a missing cell
Hadamard(ident, cov) ==
    [i \in DOMAIN ident |-> [j \in DOMAIN ident[i] |->
        IF ident[i][j] = Missing \/ cov[i][j] = Missing
        THEN Missing
        ELSE ident[i][j] * cov[i][j]]]

\* the failure of BuildMatrices on these records, "" when it succeeds
BuildError(recs) ==
    IF recs = <<>> THEN "NotFoundError"
    ELSE IF \E k \in 1..Len(recs) :
                ~({recs[k].query, recs[k].subject} \subseteq SeqToSet(GenomeIndex(recs)))
         THEN "DataIntegrityError"
         ELSE ""

\* step 6: the named matrices of a run, all in the order of `index`
BuildMatrices(recs) ==
    [ index       |-> GenomeIndex(recs),
      identity    |-> MetricMatrix(recs, Metrics[1]),
      coverage    |-> MetricMatrix(recs, Metrics[2]),
      aln_lengths |-> MetricMatrix(recs, Metrics[3]),
      sim_errors  |-> MetricMatrix(recs, Metrics[4]),
      hadamard    |-> Hadamard(MetricMatrix(recs, Metrics[1]),
                               MetricMatrix(recs, Metrics[2])) ]

\* `results` before any build
NoResults ==
    [ index |-> <<>>, identity |-> <<>>, coverage |-> <<>>,
      aln_lengths |-> <<>>, sim_errors |-> <<>>, hadamard |-> <<>> ]

-----------------------------------------------------------------------------
(* The table exporter, Export(result, pathStem, formats, options)           *)

\* the format tokens the exporter has a writer for
Supported == {Tab, Excel, Html}

\* showIndex when the caller does not pass it
ShowIndexDefault == FALSE

\* the formats of a call, each once
FormatSet(c) == BagToSet(c.formats)

\* the per-format failures of a call on which the writes of `ok` succeed
ExportFailures(c, ok) ==
    { [stem |-> c.stem, format |-> f,
       error |-> IF f \in Supported THEN "WriteError" ELSE "UnsupportedFormatError"]
      : f \in FormatSet(c) \ ok }

\* the files a call writes: one per format whose write succeeds
Written(c, ok) == {<<c.stem, f>> : f \in ok}

\* the files a call writes over: those on disk already, and those of a format
\* that the list holds more than once
WrittenOver(c, ok) ==
    (files \cap Written(c, ok)) \cup {<<c.stem, f>> : f \in {g \in ok : c.formats[g] > 1}}

\* one call of the exporter: every format is attempted on its own; a format
\* without a writer fails and writes nothing, a write may fail
Export(c, ok) ==
    /\ calls' = Append(calls, c)
    /\ files' = files \cup Written(c, ok)
    /\ overwritten' = overwritten \cup WrittenOver(c, ok)
    /\ reported' = reported \cup ExportFailures(c, ok)

\* the outcomes the file system allows a call
WriteOutcomes(c) == SUBSET (FormatSet(c) \cap Supported)

-----------------------------------------------------------------------------
(* The invocations explored *)

DbPath == <<"db">>
OutDir == <<"out">>

Namespace(fmt, sr, sg, srg, sgr, rr, rm) ==
    [ kind |-> "Namespace", formats |-> fmt, dbpath |-> DbPath, outdir |-> OutDir,
      show_runs |-> sr, show_genomes |-> sg,
      show_runs_genomes |-> srg, show_genomes_runs |-> sgr,
      run_results |-> rr, run_matrices |-> rm ]

\* a dict, as the inner matrix loop binds to `args`
Dict(items) == [kind |-> "dict", items |-> items]

Strings(chars, n) == UNION {[1..k -> chars] : k \in 0..n}

RECURSIVE JoinComma(_)
JoinComma(toks) ==
    IF Len(toks) = 1 THEN toks[1]
    ELSE toks[1] \o <<Comma>> \o JoinComma(Tail(toks))

\* "tab,excel,tab", "excel," and " html "
FmtTabExcelTab == Tab \o <<Comma>> \o Excel \o <<Comma>> \o Tab
FmtTrailingComma == Excel \o <<Comma>>
FmtSpaced == <<Space>> \o Html \o <<Space>>

FormatChars == {"t", "a", "b", Comma, Space}
AllFormatArgs ==
    {None, FmtTabExcelTab, FmtTrailingComma, FmtSpaced} \cup Strings(FormatChars, MaxFmtLen)
FlowFormatArgs == {None, FmtTabExcelTab, FmtTrailingComma}

\* run id lists: "1" and " 2" joined by commas
RunTokens == {<<"1">>, <<Space, "2">>}
RunArgs ==
    {None} \cup {JoinComma(l) : l \in UNION {[1..k -> RunTokens] : k \in 1..MaxRuns}}

Record(q, s, id, cov, aln, sim) ==
    [ query |-> q, subject |-> s, identity |-> id, coverage |-> cov,
      aln_length |-> aln, sim_errors |-> sim ]

\* runs "1" and "2" hold comparisons
ExampleDb ==
    [ r \in {<<"1">>, <<"2">>} |->
        IF r = <<"1">>
        THEN << Record(10, 11, 97, 88, 500, 3) >>
        ELSE << Record(10, 11, 97, 88, 500, 3), Record(11, 10, 95, 70, 480, 5) >> ]

Genomes == {10, 11, 12}
AllRecords ==
    [ query : Genomes, subject : Genomes, identity : {0, 97}, coverage : {88},
      aln_length : {500}, sim_errors : {3} ]
AllRecordLists == UNION {[1..k -> AllRecords] : k \in 0..MaxRecords}

\* every combination of the four listings, with and without the dumps of run "1"
ListingInvocations ==
    { [args |-> Namespace(f, sr, sg, srg, sgr, rr, rm), db |-> ExampleDb] :
        f \in FlowFormatArgs, sr \in BOOLEAN, sg \in BOOLEAN, srg \in BOOLEAN,
        sgr \in BOOLEAN, rr \in {None, <<"1">>}, rm \in {None, <<"1">>} }

\* every pair of run id lists, with and without the listing of the runs
RunListInvocations ==
    { [args |-> Namespace(f, sr, FALSE, FALSE, FALSE, rr, rm), db |-> ExampleDb] :
        f \in FlowFormatArgs, sr \in BOOLEAN, rr \in RunArgs, rm \in RunArgs }

\* every formats string, listing the runs
FormatInvocations ==
    { [args |-> Namespace(f, TRUE, FALSE, FALSE, FALSE, None, None), db |-> ExampleDb] :
        f \in AllFormatArgs }

\* every list of comparison records, as the matrices of run "1"
MatrixInvocations ==
    { [args |-> Namespace(None, FALSE, FALSE, FALSE, FALSE, None, <<"1">>),
       db |-> [r \in {<<"1">>} |-> recs]] : recs \in AllRecordLists }

Invocations ==
    ListingInvocations \cup RunListInvocations \cup FormatInvocations \cup MatrixInvocations

\* no exception
NoError == [type |-> "", at |-> ""]

\* subcmd_report(args, logger) is entered
Init ==
    /\ \E inv \in Invocations : argv = inv.args /\ db = inv.db
    /\ args = argv
    /\ pc = "formats"
    /\ err = NoError
    /\ session = FALSE
    /\ formats = EmptyBag
    /\ outfstem = <<>>
    /\ run_ids = <<>>
    /\ idx = 0
    /\ mi = 0
    /\ records = <<>>
    /\ results = NoResults
    /\ built = {}
    /\ calls = <<>>
    /\ files = {}
    /\ overwritten = {}
    /\ reported = {}

-----------------------------------------------------------------------------
(* subcmd_report, statement by statement.  The function catches nothing:    *)
(* an exception raised by a call ends the invocation.                       *)

\* the colour_num of the identity and coverage matrices
ColourNum == 95

\* the list the inner loop of the matrix dump runs over
MatrixLoop ==
    << [matname |-> "identity",    args |-> Dict({<<"colour_num", ColourNum>>})],
       [matname |-> "coverage",    args |-> Dict({<<"colour_num", ColourNum>>})],
       [matname |-> "aln_lengths", args |-> Dict({})],
       [matname |-> "sim_errors",  args |-> Dict({})],
       [matname |-> "hadamard",    args |-> Dict({})] >>

\* an exception leaves subcmd_report, which has no handler
Raise(e) == pc' = "crashed" /\ err' = [type |-> e, at |-> pc]
Goto(p) == pc' = p /\ err' = err

\* write_dbtable(data, outfname, formats)
FlatCall(name) ==
    [ kind |-> "flat", stem |-> PathJoin(args.outdir, name),
      data |-> [table |-> name, rows |-> <<>>],
      formats |-> formats, kwargs |-> {}, show_index |-> ShowIndexDefault,
      colour_num |-> <<>>, iter |-> 0 ]

\* the stem without the run id
ResultsStemNoRun(stem, run_id) == stem

\* outfname = "_".join([outfstem, str(run_id)])
ResultsStem(stem, run_id) == JoinUnderscore(<<stem, run_id>>)

\* write_dbtable(data, outfname, formats) of the results loop
ResultsCall(run_id) ==
    [ kind |-> "results", stem |-> ResultsStem(outfstem, run_id),
      data |-> [table |-> "comparisons", rows |-> <<>>],
      formats |-> formats, kwargs |-> {}, show_index |-> ShowIndexDefault,
      colour_num |-> <<>>, iter |-> idx ]

\* outfname = "_".join([outfstem, matname, str(run_id)])
MatrixStem(stem, matname, run_id) == JoinUnderscore(<<stem, <<matname>>, run_id>>)

\* the keyword arguments of write_dbtable(..., show_index=True, **kw)
MatrixKwargs(kw) == {"show_index"} \cup {item[1] : item \in kw.items}
\* colour_num passed whatever the matrix
MatrixColourAlways(kw) == <<ColourNum>>

MatrixColour(kw) ==
    IF \E item \in kw.items : item[1] = "colour_num"
    THEN <<(CHOOSE item \in kw.items : item[1] = "colour_num")[2]>>
    ELSE <<>>

\* write_dbtable(getattr(results, matname), outfname, formats, show_index=True, **args)
MatrixCall(matname, kw, run_id) ==
    [ kind |-> "matrix", stem |-> MatrixStem(outfstem, matname, run_id),
      data |-> [table |-> matname, rows |-> results[matname]],
      formats |-> formats, kwargs |-> MatrixKwargs(kw), show_index |-> TRUE,
      colour_num |-> MatrixColour(kw), iter |-> idx ]

\* lines 71-75
ComputeFormats ==
    /\ pc = "formats"
    /\ formats' = DedupFormats(FormatList(args.formats))
    /\ Goto("session")
    /\ UNCHANGED <<argv, args, db, session, outfstem, run_ids, idx, mi, records,
                   results, built, calls, files, overwritten, reported>>

\* lines 78-79
GetSession ==
    /\ pc = "session"
    /\ \/ session' = TRUE /\ Goto("runs")
       \/ session' = FALSE /\ Raise("SessionError")
    /\ UNCHANGED <<argv, args, db, formats, outfstem, run_ids, idx, mi, records,
                   results, built, calls, files, overwritten, reported>>

\* one of the four listings: the query, then the export of its table
FlatReport(here, selected, name, next) ==
    /\ pc = here
    /\ IF ~selected
       THEN Goto(next) /\ UNCHANGED <<calls, files, overwritten, reported>>
       ELSE \/ Raise("QueryError") /\ UNCHANGED <<calls, files, overwritten, reported>>
            \/ \E ok \in WriteOutcomes(FlatCall(name)) :
                 /\ Export(FlatCall(name), ok)
                 /\ IF ExportFailures(FlatCall(name), ok) = {}
                    THEN Goto(next)
                    ELSE \E f \in ExportFailures(FlatCall(name), ok) : Raise(f.error)
    /\ UNCHANGED <<argv, args, db, session, formats, outfstem, run_ids, idx, mi,
                   records, results, built>>

\* lines 82-91
ReportRuns == FlatReport("runs", args.show_runs, "runs", "genomes")
\* lines 94-107
ReportGenomes == FlatReport("genomes", args.show_genomes, "genomes", "runs_genomes")
\* lines 110-149
ReportRunsGenomes ==
    FlatReport("runs_genomes", args.show_runs_genomes, "runs_genomes", "genomes_runs")
\* lines 152-190
ReportGenomesRuns ==
    FlatReport("genomes_runs", args.show_genomes_runs, "genomes_runs", "results")

\* lines 193-196
ResultsSetup ==
    /\ pc = "results"
    /\ IF Truthy(args.run_results)
       THEN /\ outfstem' = PathJoin(args.outdir, "results")
            /\ run_ids' = StripAll(Split(args.run_results))
            /\ idx' = 1
            /\ Goto("results_loop")
       ELSE Goto("matrices") /\ UNCHANGED <<outfstem, run_ids, idx>>
    /\ UNCHANGED <<argv, args, db, session, formats, mi, records, results, built,
                   calls, files, overwritten, reported>>

\* where a loop over run_ids goes after the element at idx
AfterRun(loop, after) == IF idx < Len(run_ids) THEN loop ELSE after

\* lines 197-202, one iteration
ResultsStep ==
    /\ pc = "results_loop"
    /\ \/ /\ Raise(IF run_ids[idx] \in DOMAIN db THEN "QueryError" ELSE "NotFoundError")
          /\ UNCHANGED <<idx, calls, files, overwritten, reported>>
       \/ /\ run_ids[idx] \in DOMAIN db
          /\ \E ok \in WriteOutcomes(ResultsCall(run_ids[idx])) :
               /\ Export(ResultsCall(run_ids[idx]), ok)
               /\ IF ExportFailures(ResultsCall(run_ids[idx]), ok) = {}
                  THEN /\ Goto(AfterRun("results_loop", "matrices"))
                       /\ idx' = IF idx < Len(run_ids) THEN idx + 1 ELSE idx
                  ELSE /\ \E f \in ExportFailures(ResultsCall(run_ids[idx]), ok) :
                            Raise(f.error)
                       /\ idx' = idx
    /\ UNCHANGED <<argv, args, db, session, formats, outfstem, run_ids, mi, records,
                   results, built>>

\* lines 207-210
MatricesSetup ==
    /\ pc = "matrices"
    /\ IF Truthy(args.run_matrices)
       THEN /\ outfstem' = PathJoin(args.outdir, "matrix")
            /\ run_ids' = StripAll(Split(args.run_matrices))
            /\ idx' = 1
            /\ Goto("mat_build")
       ELSE Goto("done") /\ UNCHANGED <<outfstem, run_ids, idx>>
    /\ UNCHANGED <<argv, args, db, session, formats, mi, records, results, built,
                   calls, files, overwritten, reported>>

\* the comparison records of a run
RunRecords(run_id) == IF run_id \in DOMAIN db THEN db[run_id] ELSE <<>>

\* the build's failure swallowed: the loop goes on to the exports
ANIResultsCarryOn ==
    /\ pc = "mat_build"
    /\ IF args.kind # "Namespace"
       THEN Raise("AttributeError") /\ UNCHANGED <<mi, records, results, built>>
       ELSE \/ mi' = 1 /\ Goto("mat_export") /\ UNCHANGED <<records, results, built>>
            \/ /\ records' = RunRecords(run_ids[idx])
               /\ IF BuildError(records') # ""
                  THEN mi' = 1 /\ Goto("mat_export") /\ UNCHANGED <<results, built>>
                  ELSE /\ results' = BuildMatrices(records')
                       /\ built' = built \cup {idx}
                       /\ mi' = 1
                       /\ Goto("mat_export")
    /\ UNCHANGED <<argv, args, db, session, formats, outfstem, run_ids, idx,
                   calls, files, overwritten, reported>>

\* lines 211-213: results = pyani_db.ANIResults(args.dbpath, run_id); `args` is
\* whatever the name is bound to now, and a dict has no attribute dbpath
ANIResults ==
    /\ pc = "mat_build"
    /\ IF args.kind # "Namespace"
       THEN Raise("AttributeError") /\ UNCHANGED <<mi, records, results, built>>
       ELSE \/ Raise("QueryError") /\ UNCHANGED <<mi, records, results, built>>
            \/ /\ records' = RunRecords(run_ids[idx])
               /\ IF BuildError(records') # ""
                  THEN Raise(BuildError(records')) /\ UNCHANGED <<mi, results, built>>
                  ELSE /\ results' = BuildMatrices(records')
                       /\ built' = built \cup {idx}
                       /\ mi' = 1
                       /\ Goto("mat_export")
    /\ UNCHANGED <<argv, args, db, session, formats, outfstem, run_ids, idx,
                   calls, files, overwritten, reported>>

\* lines 214-229, one iteration: `for matname, args in [...]` binds `args`
ExportMatrix ==
    /\ pc = "mat_export"
    /\ args' = MatrixLoop[mi].args
    /\ \E ok \in WriteOutcomes(MatrixCall(MatrixLoop[mi].matname, args', run_ids[idx])) :
         LET c == MatrixCall(MatrixLoop[mi].matname, args', run_ids[idx])
         IN  /\ Export(c, ok)
             /\ IF ExportFailures(c, ok) # {}
                THEN /\ \E f \in ExportFailures(c, ok) : Raise(f.error)
                     /\ UNCHANGED <<mi, idx>>
                ELSE IF mi < Len(MatrixLoop)
                THEN Goto("mat_export") /\ mi' = mi + 1 /\ idx' = idx
                ELSE /\ Goto(AfterRun("mat_build", "done"))
                     /\ mi' = mi
                     /\ idx' = IF idx < Len(run_ids) THEN idx + 1 ELSE idx
    /\ UNCHANGED <<argv, db, session, formats, outfstem, run_ids, records, results,
                   built>>

Next ==
    \/ ComputeFormats
    \/ GetSession
    \/ ReportRuns
    \/ ReportGenomes
    \/ ReportRunsGenomes
    \/ ReportGenomesRuns
    \/ ResultsSetup
    \/ ResultsStep
    \/ MatricesSetup
    \/ ANIResults
    \/ ExportMatrix

Spec == Init /\ [][Next]_vars

-----------------------------------------------------------------------------
(* What the claims speak of *)

\* the positions that bound the tokens of s: before it, its commas, after it
Bounds(s) == {0, Len(s) + 1} \cup {k \in 1..Len(s) : s[k] = Comma}

\* the text strictly between positions a and b of s, without the blanks at
\* its two ends
Trimmed(s, a, b) ==
    LET inked == {k \in (a + 1)..(b - 1) : s[k] # Space}
    IN  IF inked = {} THEN <<>>
        ELSE SubSeq(s, CHOOSE k \in inked : \A n \in inked : k <= n,
                       CHOOSE k \in inked : \A n \in inked : n <= k)

\* the trimmed tokens a formats argument asks for: one between every two
\* neighbouring bounds
Requested(s) ==
    IF ~Truthy(s) THEN {}
    ELSE { Trimmed(s, p[1], p[2]) :
             p \in { q \in Bounds(s) \X Bounds(s) :
                       /\ q[1] < q[2]
                       /\ \A k \in Bounds(s) : ~(q[1] < k /\ k < q[2]) } }

\* the formats an invocation asks for, the default included
Asked == {Tab} \cup Requested(argv.formats)

CallIds == 1..Len(calls)
FilesOf(stem) == {f \in files : f[1] = stem}
FailuresOf(stem) == {r \in reported : r.stem = stem}

\* the run ids an argument lists, trimmed, in order
Listed(arg) == IF Truthy(arg) THEN StripAll(Split(arg)) ELSE <<>>
NoRepeat(l) == \A i \in 1..Len(l) : \A j \in 1..Len(l) : i # j => l[i] # l[j]

\* the stems of the calls of one kind made for the run at position k of its list
StemsOf(kind, k) ==
    LET sel == SelectSeq(calls, LAMBDA c : c.kind = kind /\ c.iter = k)
    IN  [n \in 1..Len(sel) |-> sel[n].stem]
FlatStems(name) ==
    LET sel == SelectSeq(calls, LAMBDA c : c.kind = "flat" /\ c.data.table = name)
    IN  [n \in 1..Len(sel) |-> sel[n].stem]

MatrixNames == <<"identity", "coverage", "aln_lengths", "sim_errors", "hadamard">>
Dir(name) == <<"out", "/", name>>

\* the failures of a collaborator: the data source, the builder, the exporter
CollaboratorErrors ==
    {"SessionError", "QueryError", "NotFoundError", "DataIntegrityError",
     "WriteError", "UnsupportedFormatError"}

\* the matrices of the current run stand built
Built == idx \in built /\ pc \in {"mat_export", "mat_build", "done", "crashed"}
Cells == DOMAIN results.index

-----------------------------------------------------------------------------
\* C1: the format collection handed to every export call is exactly {tab}
\* united with the whitespace-trimmed requested tokens, each format once; a
\* call whose formats all succeed leaves one file per format, so that
\* "tab,excel,tab" gives {tab, excel} and two files.
C1_FormatsHanded ==
    LET asked == Asked
    IN  \A k \in CallIds :
        /\ BagToSet(calls[k].formats) = asked
        /\ \A f \in BagToSet(calls[k].formats) : CopiesIn(f, calls[k].formats) = 1
        /\ FailuresOf(calls[k].stem) = {}
             => Cardinality(FilesOf(calls[k].stem)) = Cardinality(asked)
        /\ argv.formats = FmtTabExcelTab
             => BagToSet(calls[k].formats) = {Tab, Excel}

C1_Witness ==
    /\ argv.formats = FmtTabExcelTab
    /\ \E k \in CallIds :
        /\ calls[k].kind = "matrix"
        /\ BagToSet(calls[k].formats) = {Tab, Excel}
        /\ FilesOf(calls[k].stem) = {<<calls[k].stem, Tab>>, <<calls[k].stem, Excel>>}

\* C2: a failure outside the shared setup does not end the invocation while a
\* later selected action or a later listed run id is still to be processed.
RemainingWork ==
    \/ /\ err.at = "runs"
       /\ \/ argv.show_genomes \/ argv.show_runs_genomes \/ argv.show_genomes_runs
          \/ Truthy(argv.run_results) \/ Truthy(argv.run_matrices)
    \/ /\ err.at = "genomes"
       /\ \/ argv.show_runs_genomes \/ argv.show_genomes_runs
          \/ Truthy(argv.run_results) \/ Truthy(argv.run_matrices)
    \/ /\ err.at = "runs_genomes"
       /\ \/ argv.show_genomes_runs
          \/ Truthy(argv.run_results) \/ Truthy(argv.run_matrices)
    \/ /\ err.at = "genomes_runs"
       /\ Truthy(argv.run_results) \/ Truthy(argv.run_matrices)
    \/ /\ err.at = "results_loop"
       /\ idx < Len(run_ids) \/ Truthy(argv.run_matrices)
    \/ /\ err.at \in {"mat_build", "mat_export"}
       /\ idx < Len(run_ids)

C2_ContinuesAfterFailure ==
    (pc = "crashed" /\ err.at # "session") => ~RemainingWork

\* C3: a format token without a writer, the empty token of a trailing comma
\* included, makes every export call fail with UnsupportedFormatError for
\* that token and write no file for it; the failure ends the invocation.
C3_UnsupportedFails ==
    /\ \A f \in files : f[2] \in Supported
    /\ \A t \in Asked \ Supported : \A k \in CallIds :
        /\ <<calls[k].stem, t>> \notin files
        /\ [stem |-> calls[k].stem, format |-> t, error |-> "UnsupportedFormatError"]
             \in reported
        /\ pc = "crashed"
        /\ err.type \in {"UnsupportedFormatError", "WriteError"}

C3_Witness ==
    /\ argv.formats = FmtTrailingComma
    /\ \E k \in CallIds :
        /\ <<>> \in BagToSet(calls[k].formats)
        /\ [stem |-> calls[k].stem, format |-> <<>>, error |-> "UnsupportedFormatError"]
             \in reported
        /\ <<calls[k].stem, <<>>>> \notin files
    /\ pc = "crashed"

\* C4: an invocation that no collaborator's failure ended has made, for
\* every run id listed in run_matrices, exactly the five matrix exports in
\* order, to matrix_<metric>_<run>; for every run id listed in run_results
\* exactly one export to results_<run>; and one per selected listing.
C4_ExportsPerRun ==
    (pc \in {"done", "crashed"} /\ err.type \notin CollaboratorErrors) =>
        /\ \A k \in 1..Len(Listed(argv.run_matrices)) :
             StemsOf("matrix", k) =
                [n \in 1..5 |->
                    Dir("matrix") \o <<"_", MatrixNames[n], "_">>
                        \o Listed(argv.run_matrices)[k]]
        /\ \A k \in 1..Len(Listed(argv.run_results)) :
             StemsOf("results", k) =
                << Dir("results") \o <<"_">> \o Listed(argv.run_results)[k] >>
        /\ FlatStems("runs") = IF argv.show_runs THEN <<Dir("runs")>> ELSE <<>>
        /\ FlatStems("genomes") = IF argv.show_genomes THEN <<Dir("genomes")>> ELSE <<>>
        /\ FlatStems("runs_genomes") =
             IF argv.show_runs_genomes THEN <<Dir("runs_genomes")>> ELSE <<>>
        /\ FlatStems("genomes_runs") =
             IF argv.show_genomes_runs THEN <<Dir("genomes_runs")>> ELSE <<>>

\* C5: every matrix export of a run is made after the matrix build of that
\* run has succeeded; a run whose build failed has no matrix export.
C5_ExportOnlyAfterBuild ==
    /\ \A k \in CallIds :
         calls[k].kind = "matrix" =>
            /\ calls[k].iter \in built
            /\ calls[k].data.rows # <<>>
    /\ (pc = "crashed" /\ err.at = "mat_build") =>
         \A k \in CallIds : ~(calls[k].kind = "matrix" /\ calls[k].iter = idx)

C5_Witness ==
    /\ pc = "crashed"
    /\ err = [type |-> "NotFoundError", at |-> "mat_build"]
    /\ idx \notin built
    /\ \A k \in CallIds : calls[k].kind # "matrix"

C7_Hadamard ==
    Built =>
        /\ \A i \in Cells : \A j \in Cells :
            /\ results.hadamard[i][j] =
                 IF results.identity[i][j] = Missing \/ results.coverage[i][j] = Missing
                 THEN Missing
                 ELSE results.identity[i][j] * results.coverage[i][j]
            /\ results.coverage[i][j] # Missing
                 <=> \E n \in 1..Len(records) :
                        /\ records[n].query = results.index[i]
                        /\ records[n].subject = results.index[j]
        /\ records = <<Record(10, 11, 97, 88, 500, 3)>>
             => /\ results.coverage = <<<<Missing, 88>>, <<Missing, Missing>>>>
                /\ results.hadamard = <<<<Missing, 8536>>, <<Missing, Missing>>>>

C7_Witness ==
    /\ Built
    /\ \E i \in Cells : \E j \in Cells :
        /\ results.identity[i][j] # Missing
        /\ results.coverage[i][j] = Missing
        /\ results.hadamard[i][j] = Missing
    /\ \E i \in Cells : \E j \in Cells :
        /\ results.identity[i][j] = 0
        /\ results.coverage[i][j] = 88
        /\ results.hadamard[i][j] = 0

\* C8: at the start of the processing of every run id of run_matrices the
\* name `args` still holds the invocation's arguments, database path
\* included, and the format set is the one computed at the start.
C8_InputsUnchanged ==
    pc = "mat_build" =>
        /\ args.kind = "Namespace"
        /\ args.dbpath = argv.dbpath
        /\ formats = DedupFormats(FormatList(argv.formats))

\* C9: every matrix export passes show_index=True and no other export passes
\* show_index; colour_num 0.95 is passed for the identity and coverage
\* matrices and for no other export.
C9_Options ==
    \A k \in CallIds :
        IF calls[k].kind = "matrix"
        THEN /\ "show_index" \in calls[k].kwargs
             /\ calls[k].show_index = TRUE
             /\ calls[k].colour_num =
                  IF calls[k].data.table \in {"identity", "coverage"}
                  THEN <<95>> ELSE <<>>
             /\ "colour_num" \in calls[k].kwargs
                  <=> calls[k].data.table \in {"identity", "coverage"}
        ELSE /\ calls[k].kwargs = {}
             /\ calls[k].show_index = FALSE
             /\ calls[k].colour_num = <<>>

C9_Witness ==
    /\ pc = "done"
    /\ \E k \in CallIds : calls[k].kind = "flat"
    /\ \E k \in CallIds : calls[k].kind = "results"
    /\ \E k \in CallIds : calls[k].kind = "matrix" /\ calls[k].data.table = "identity"
    /\ \E k \in CallIds : calls[k].kind = "matrix" /\ calls[k].data.table = "hadamard"

\* C10 as stated: whatever the run id lists, no two export calls of an
\* invocation have the same path stem and no file is written twice.
C10_NoStemTwice ==
    pc = "done" =>
        /\ \A j \in CallIds : \A k \in CallIds : j # k => calls[j].stem # calls[k].stem
        /\ overwritten = {}

\* C10 amended: when neither run id list repeats a run id, no two export
\* calls have the same path stem and no file is written twice.
C10_NoStemTwiceUnlessRepeated ==
    (NoRepeat(Listed(argv.run_results)) /\ NoRepeat(Listed(argv.run_matrices)))
        => /\ \A j \in CallIds : \A k \in CallIds :
                j # k => calls[j].stem # calls[k].stem
           /\ overwritten = {}

C10_Witness ==
    /\ pc = "done"
    /\ Len(Listed(argv.run_results)) = 2
    /\ NoRepeat(Listed(argv.run_results))
    /\ Len(calls) >= 8
    /\ overwritten = {}
    /\ files # {}

====
